---- MODULE Spec2Model ----
(***************************************************************************)
(* GeographicTilingScheme (Source/Core/GeographicTilingScheme.js): the     *)
(* geographic tiling scheme with the EPSG:4490 tile-matrix branch.         *)
(*                                                                         *)
(* Numbers.  The code computes with IEEE doubles; the model computes       *)
(* the same expressions exactly, on integers:                              *)
(*   - a number of radians is held in units of pi / PI (PI units are a     *)
(*     half turn, 256 units are the angle of one degree);                  *)
(*   - a number of degrees is held in units of 1 / DegUnit of a degree.    *)
(* The configurations and inputs are chosen so that every quotient the     *)
(* code forms is a whole number of units (ExactArithmetic checks it), so   *)
(* no rounding is hidden; floating-point rounding error is not modelled.   *)
(*                                                                         *)
(* Objects.  The scheme holds its rectangle by reference and hands that    *)
(* same object out through the `rectangle` accessor.  A call's optional    *)
(* `result` argument is therefore one of: undefined ("none"), an object    *)
(* the caller owns ("own"), or the object the accessor returned ("root").  *)
(***************************************************************************)
EXTENDS Integers, Sequences, FiniteSets

VARIABLES
    scheme,        \* the GeographicTilingScheme instance (its private fields)
    constructed,   \* the fields as the constructor left them (history)
    aliased,       \* a call has been given the accessor's rectangle as `result`
    last           \* the last call: its arguments, outcome and output objects

vars == <<scheme, constructed, aliased, last>>

---------------------------------------------------------------------------
(* Bounds of the exploration *)

\* levels at which every tile is converted and its centre looked up again
MaxLevel == 6
\* levels used by calls that pass a `result` object and by the probe positions
MaxSmallLevel == 2
\* levels at which the tile counts are asked for
MaxCountLevel == 31

---------------------------------------------------------------------------
(* CesiumMath *)

\* radian units in a half turn
PI == 180 * 256
TWO_PI == 2 * PI
\* degree units in one degree
DegUnit == 2 * 256
Degrees(d) == d * DegUnit

\* CesiumMath.toDegrees: radians * (180 / pi)
toDegrees(radians) == radians * ((180 * DegUnit) \div PI)
\* CesiumMath.toRadians: degrees * (pi / 180); exact when degrees is a
\* multiple of (180 * DegUnit) / PI units
toRadians(degrees) == degrees \div ((180 * DegUnit) \div PI)

\* Math.round of the quotient a / b, b > 0: floor(a / b + 1/2)
MathRound(a, b) == (2 * a + b) \div (2 * b)

\* (a / b) | 0 for |a / b| < 2^31: the quotient truncated toward zero
TruncDiv(a, b) ==
    IF (a >= 0) = (b > 0)
    THEN (IF a >= 0 THEN a ELSE -a) \div (IF b >= 0 THEN b ELSE -b)
    ELSE -((IF a >= 0 THEN a ELSE -a) \div (IF b >= 0 THEN b ELSE -b))

\* Math.floor of the quotient a / b, b > 0
MathFloor(a, b) == a \div b

\* one step of a 32-bit left shift: 2 * v wrapped to a signed 32-bit integer
Two30 == 1024 * 1024 * 1024
ShiftLeft1(v) ==
    IF v >= Two30 THEN ((v - Two30) + (v - Two30)) - Two30 - Two30
    ELSE IF v < -Two30 THEN ((v + Two30) + Two30) + ((v + Two30) + Two30)
    ELSE v + v

RECURSIVE ShiftLeftBy(_, _)
ShiftLeftBy(v, k) == IF k = 0 THEN v ELSE ShiftLeftBy(ShiftLeft1(v), k - 1)

\* (mutant) the count grows by the root count per level instead of doubling
ShiftLeftLinear(v, n) == v * (n + 1)

\* v << n: the shift count is taken modulo 32
ShiftLeft(v, n) == ShiftLeftBy(v, n % 32)

---------------------------------------------------------------------------
(* Optional values: <<>> is undefined, <<v>> is v *)

Undefined == <<>>
Some(v) == <<v>>
defined(a) == a # <<>>
defaultValue(a, b) == IF defined(a) THEN a[1] ELSE b

---------------------------------------------------------------------------
(* Rectangle and Cartesian2 *)

Rectangle(w, s, e, n) == [west |-> w, south |-> s, east |-> e, north |-> n]
Cartesian2(x, y) == [x |-> x, y |-> y]
Cartographic(lon, lat) == [longitude |-> lon, latitude |-> lat]

Rectangle_fromDegrees(w, s, e, n) ==
    Rectangle(toRadians(Degrees(w)), toRadians(Degrees(s)),
              toRadians(Degrees(e)), toRadians(Degrees(n)))

\* Rectangle.MAX_VALUE: the whole sphere
Rectangle_MAX_VALUE == Rectangle(-PI, -(PI \div 2), PI, PI \div 2)

\* Rectangle.prototype.width: a rectangle with east < west wraps the date line
Rectangle_width(r) ==
    (IF r.east < r.west THEN r.east + TWO_PI ELSE r.east) - r.west
Rectangle_height(r) == r.north - r.south

\* Rectangle.contains
Rectangle_contains(r, p) ==
    LET wraps == r.east < r.west
        east == IF wraps THEN r.east + TWO_PI ELSE r.east
        longitude == IF wraps /\ p.longitude < 0
                     THEN p.longitude + TWO_PI ELSE p.longitude
    IN  /\ longitude >= r.west
        /\ longitude <= east
        /\ p.latitude >= r.south
        /\ p.latitude <= r.north

---------------------------------------------------------------------------
(* The constructor *)

\* options.tileInfo of the EPSG:4490 services: 256 x 256 tiles anchored at
\* (-180, 90); lods[i].resolution is in degrees per pixel (0.703125 at level 0)
TileInfo(wkid, ox, oy, rows, cols, lods) ==
    [spatialReference |-> Some([wkid |-> wkid]),
     origin |-> [x |-> ox, y |-> oy], rows |-> rows, cols |-> cols, lods |-> lods]

Lod(level, resolution) == [level |-> level, resolution |-> resolution]

Options(tileInfo, ellipsoid, rectangle, nx, ny) ==
    [tileInfo |-> tileInfo, ellipsoid |-> ellipsoid, rectangle |-> rectangle,
     numberOfLevelZeroTilesX |-> nx, numberOfLevelZeroTilesY |-> ny]

\* function GeographicTilingScheme(options).  rectangleFrozen records that
\* Rectangle.MAX_VALUE is a frozen object: an assignment to one of its fields
\* throws a TypeError in module (strict-mode) code.
GeographicTilingScheme(options) ==
    IF /\ defined(options.tileInfo)
       /\ defined(options.tileInfo[1].spatialReference)
       /\ defined(options.tileInfo[1].spatialReference[1].wkid)
       /\ options.tileInfo[1].spatialReference[1].wkid[1] = 4490
    THEN [tileInfo |-> options.tileInfo,
          ellipsoid |-> defaultValue(options.ellipsoid, "CGCS2000"),
          rectangle |-> defaultValue(options.rectangle,
                                     Rectangle_fromDegrees(-180, -90, 180, 90)),
          rectangleFrozen |-> FALSE,
          numberOfLevelZeroTilesX |-> defaultValue(options.numberOfLevelZeroTilesX, 4),
          numberOfLevelZeroTilesY |-> defaultValue(options.numberOfLevelZeroTilesY, 2),
          projection |-> defaultValue(options.ellipsoid, "CGCS2000")]
    ELSE [tileInfo |-> Undefined,
          ellipsoid |-> defaultValue(options.ellipsoid, "WGS84"),
          rectangle |-> defaultValue(options.rectangle, Rectangle_MAX_VALUE),
          rectangleFrozen |-> ~defined(options.rectangle),
          numberOfLevelZeroTilesX |-> defaultValue(options.numberOfLevelZeroTilesX, 2),
          numberOfLevelZeroTilesY |-> defaultValue(options.numberOfLevelZeroTilesY, 1),
          projection |-> defaultValue(options.ellipsoid, "WGS84")]

\* resolutions in degree units per pixel
Res(n) == n
Lods4490 == <<Lod(0, Res(360)), Lod(1, Res(180)), Lod(2, Res(90))>>
\* a table whose cells do not divide the sphere evenly (256 pixels are 144
\* and 50 degrees), with no entry for level 0
LodsUneven == <<Lod(1, Res(288)), Lod(2, Res(100))>>

\* the configurations the scheme is constructed from
OptionsSet ==
    { \* new GeographicTilingScheme()
      Options(Undefined, Undefined, Undefined, Undefined, Undefined),
      \* a root rectangle that wraps the date line: west 170, east -170
      Options(Undefined, Undefined,
              Some(Rectangle_fromDegrees(170, -10, -170, 10)), Undefined, Undefined),
      \* a regional rectangle with its own level-zero tile counts
      Options(Undefined, Some("CGCS2000"),
              Some(Rectangle_fromDegrees(0, 0, 90, 60)), Some(1), Some(1)),
      \* a tile matrix of another spatial reference is ignored
      Options(Some(TileInfo(Some(4326), Degrees(-180), Degrees(90), 256, 256, Lods4490)),
              Undefined, Undefined, Undefined, Undefined),
      \* the EPSG:4490 tile matrix
      Options(Some(TileInfo(Some(4490), Degrees(-180), Degrees(90), 256, 256, Lods4490)),
              Undefined, Undefined, Undefined, Undefined),
      \* rows # cols
      Options(Some(TileInfo(Some(4490), Degrees(-180), Degrees(90), 256, 128, Lods4490)),
              Undefined, Undefined, Undefined, Undefined),
      \* uneven cells, a level missing from the table
      Options(Some(TileInfo(Some(4490), Degrees(-180), Degrees(90), 256, 128, LodsUneven)),
              Some("WGS84"), Undefined, Undefined, Undefined),
      \* a matrix anchored inside an explicit root rectangle
      Options(Some(TileInfo(Some(4490), Degrees(0), Degrees(90), 128, 256, Lods4490)),
              Undefined, Some(Rectangle_fromDegrees(0, 0, 90, 90)), Some(1), Some(1)) }

---------------------------------------------------------------------------
(* The methods, as functions of the scheme's fields and the arguments.     *)
(* An outcome is [status, value]: status "returned" with the value,        *)
(* "threw" for a TypeError; positionToTileXY also has "undefined", for     *)
(* `return undefined`.                                                     *)

Returned(v) == [status |-> "returned", value |-> v]
Threw(v) == [status |-> "threw", value |-> v]

NoRectangle == Rectangle(0, 0, 0, 0)
NoCartesian2 == Cartesian2(0, 0)

\* (mutant) a level with no entry falls back to the whole table, so that
\* currentMatrix[0] is its first entry
currentMatrixOrAll(tileInfo, level) ==
    IF SelectSeq(tileInfo.lods, LAMBDA item : item.level = level) = <<>>
    THEN tileInfo.lods
    ELSE SelectSeq(tileInfo.lods, LAMBDA item : item.level = level)

\* this._tileInfo.lods.filter(function (item) { return item.level === level; })
currentMatrix(tileInfo, level) ==
    SelectSeq(tileInfo.lods, LAMBDA item : item.level = level)

\* (mutant) the X count taken from the cell height and the half turn
matrixXTilesByCols(ti, currentResolution) ==
    MathRound(toDegrees(TWO_PI \div 2), ti.cols * currentResolution)

\* Math.round(toDegrees(TWO_PI) / (this._tileInfo.rows * currentResolution))
matrixXTiles(ti, currentResolution) ==
    MathRound(toDegrees(TWO_PI), ti.rows * currentResolution)

\* Math.round(toDegrees(TWO_PI / 2) / (this._tileInfo.cols * currentResolution))
matrixYTiles(ti, currentResolution) ==
    MathRound(toDegrees(TWO_PI \div 2), ti.cols * currentResolution)

getNumberOfXTilesAtLevel(s, level) ==
    IF ~defined(s.tileInfo)
    THEN Returned(ShiftLeft(s.numberOfLevelZeroTilesX, level))
    ELSE LET matrix == currentMatrix(s.tileInfo[1], level) IN
         IF matrix = <<>>
         THEN Threw(0)   \* currentMatrix[0] is undefined: reading .resolution throws
         ELSE Returned(matrixXTiles(s.tileInfo[1], matrix[1].resolution))

getNumberOfYTilesAtLevel(s, level) ==
    IF ~defined(s.tileInfo)
    THEN Returned(ShiftLeft(s.numberOfLevelZeroTilesY, level))
    ELSE LET matrix == currentMatrix(s.tileInfo[1], level) IN
         IF matrix = <<>>
         THEN Threw(0)
         ELSE Returned(matrixYTiles(s.tileInfo[1], matrix[1].resolution))

\* rectangleToNativeRectangle: the four bounds it computes
nativeBounds(rectangle) ==
    Rectangle(toDegrees(rectangle.west), toDegrees(rectangle.south),
              toDegrees(rectangle.east), toDegrees(rectangle.north))

\* (mutant) the east bound without the root rectangle's west
standardEastFromZero(rectangle, x, xTileWidth) == (x + 1) * xTileWidth

\* east = (x + 1) * xTileWidth + rectangle.west
standardEast(rectangle, x, xTileWidth) == (x + 1) * xTileWidth + rectangle.west

\* tileXYToRectangle, up to `if (!defined(result))`: west, south, east, north
tileBounds(s, x, y, level) ==
    IF defined(s.tileInfo)
    THEN LET ti == s.tileInfo[1]
             matrix == currentMatrix(ti, level) IN
         IF matrix = <<>>
         THEN Threw(NoRectangle)
         ELSE LET currentResolution == matrix[1].resolution
                  north == ti.origin.y - y * (ti.cols * currentResolution)
                  west == ti.origin.x + x * (ti.rows * currentResolution)
                  south == ti.origin.y - (y + 1) * (ti.cols * currentResolution)
                  east == ti.origin.x + (x + 1) * (ti.rows * currentResolution)
              IN  Returned(Rectangle(toRadians(west), toRadians(south),
                                     toRadians(east), toRadians(north)))
    ELSE LET xTiles == getNumberOfXTilesAtLevel(s, level).value
             yTiles == getNumberOfYTilesAtLevel(s, level).value
             xTileWidth == Rectangle_width(s.rectangle) \div xTiles
             yTileHeight == Rectangle_height(s.rectangle) \div yTiles
         IN  Returned(Rectangle(x * xTileWidth + s.rectangle.west,
                                s.rectangle.north - (y + 1) * yTileHeight,
                                standardEast(s.rectangle, x, xTileWidth),
                                s.rectangle.north - y * yTileHeight))

\* (mutant) no bounds test
outsideBoundsNever(s, position) == FALSE

\* !Rectangle.contains(rectangle, position)
outsideBounds(s, position) == ~Rectangle_contains(s.rectangle, position)

\* (mutant) the column found with the cell height
matrixTileXByCols(ti, degLon, currentResolution) ==
    MathFloor(degLon - ti.origin.x, ti.cols * currentResolution)

\* Math.floor((degLon - origin.x) / (rows * currentResolution))
matrixTileX(ti, degLon, currentResolution) ==
    MathFloor(degLon - ti.origin.x, ti.rows * currentResolution)

\* Math.floor((origin.y - degLat) / (cols * currentResolution))
matrixTileY(ti, degLat, currentResolution) ==
    MathFloor(ti.origin.y - degLat, ti.cols * currentResolution)

\* positionToTileXY: the outcome and, in `new`, whether the code allocates a
\* new Cartesian2 whatever `result` is
tileXY(s, position, level) ==
    IF outsideBounds(s, position)
    THEN [status |-> "undefined", value |-> NoCartesian2, new |-> FALSE]
    ELSE IF defined(s.tileInfo)
    THEN LET ti == s.tileInfo[1]
             matrix == currentMatrix(ti, level) IN
         IF matrix = <<>>
         THEN [status |-> "threw", value |-> NoCartesian2, new |-> FALSE]
         ELSE LET currentResolution == matrix[1].resolution
                  degLon == toDegrees(position.longitude)
                  degLat == toDegrees(position.latitude)
                  x_4490 == matrixTileX(ti, degLon, currentResolution)
                  y_4490 == matrixTileY(ti, degLat, currentResolution)
              IN  [status |-> "returned", value |-> Cartesian2(x_4490, y_4490),
                   new |-> TRUE]
    ELSE LET xTiles == getNumberOfXTilesAtLevel(s, level).value
             yTiles == getNumberOfYTilesAtLevel(s, level).value
             xTileWidth == Rectangle_width(s.rectangle) \div xTiles
             yTileHeight == Rectangle_height(s.rectangle) \div yTiles
             longitude == IF s.rectangle.east < s.rectangle.west
                          THEN position.longitude + TWO_PI
                          ELSE position.longitude
             xRaw == TruncDiv(longitude - s.rectangle.west, xTileWidth)
             xTileCoordinate == IF xRaw >= xTiles THEN xTiles - 1 ELSE xRaw
             yRaw == TruncDiv(s.rectangle.north - position.latitude, yTileHeight)
             yTileCoordinate == IF yRaw >= yTiles THEN yTiles - 1 ELSE yRaw
         IN  [status |-> "returned",
              value |-> Cartesian2(xTileCoordinate, yTileCoordinate), new |-> FALSE]

---------------------------------------------------------------------------
(* Calls.  `last` records one call: the method, its arguments, which       *)
(* object was passed as `result`, the outcome, which object came back      *)
(* ("new": one the method allocated, "result": the one passed in), and     *)
(* the contents of the caller's own output object after the call.  For a   *)
(* lookup of a tile's centre, `rectangle` is the tile's rectangle and      *)
(* `into` the object tileXYToRectangle wrote it into.                      *)

\* what the caller's own output objects hold before a call
StaleRectangle == Rectangle(7, 7, 7, 7)
StaleCartesian2 == Cartesian2(-7, -7)

NoPosition == Cartographic(0, 0)

Call(op, level, x, y, position, rectangle, centre, result, status, ret, n, rect, xy, own, ownXY) ==
    [op |-> op, level |-> level, x |-> x, y |-> y, position |-> position,
     rectangle |-> rectangle, centre |-> centre, result |-> result,
     status |-> status, ret |-> ret, n |-> n, rect |-> rect, xy |-> xy,
     own |-> own, ownXY |-> ownXY, into |-> "none"]

NoCall ==
    Call("none", 0, 0, 0, NoPosition, NoRectangle, FALSE, "none",
         "none", "none", 0, NoRectangle, NoCartesian2, StaleRectangle, StaleCartesian2)

\* the objects a caller passes as a Rectangle `result`: nothing, a rectangle
\* of its own, or (once, and for a level-zero tile) the object it got from the
\* scheme's `rectangle` accessor
RectangleResults(level) ==
    {"none", "own"} \cup (IF ~aliased /\ level = 0 THEN {"root"} ELSE {})

\* the levels a call is made at
Levels(result) ==
    IF aliased \/ result # "none" THEN 0 .. MaxSmallLevel ELSE 0 .. MaxLevel

\* the tile indices a call is made with: the valid ones where the level has
\* tile counts, 0 and 1 where it has none
Indices(count) ==
    IF count.status = "returned" /\ count.value > 0
    THEN 0 .. (count.value - 1) ELSE 0 .. 1

\* `result.west = west; ...` on the object passed as `result`, or
\* `new Rectangle(...)`: the scheme's fields, the outcome and the caller's
\* rectangle afterwards.  The assignment throws on a frozen object.
storeRectangle(s, result, bounds) ==
    IF result = "root" /\ s.rectangleFrozen
    THEN [scheme |-> s, status |-> "threw", ret |-> "none",
          rect |-> NoRectangle, own |-> StaleRectangle]
    ELSE [scheme |-> IF result = "root" THEN [s EXCEPT !.rectangle = bounds] ELSE s,
          status |-> "returned",
          ret |-> IF result = "none" THEN "new" ELSE "result",
          rect |-> bounds,
          own |-> IF result = "own" THEN bounds ELSE StaleRectangle]

\* GeographicTilingScheme.prototype.tileXYToRectangle
tileXYToRectangle(s, x, y, level, result) ==
    LET bounds == tileBounds(s, x, y, level) IN
    IF bounds.status = "threw"
    THEN [scheme |-> s, status |-> "threw", ret |-> "none",
          rect |-> NoRectangle, own |-> StaleRectangle]
    ELSE storeRectangle(s, result, bounds.value)

\* GeographicTilingScheme.prototype.tileXYToNativeRectangle
tileXYToNativeRectangle(s, x, y, level, result) ==
    LET rectangleRadians == tileXYToRectangle(s, x, y, level, result) IN
    IF rectangleRadians.status = "threw"
    THEN rectangleRadians
    ELSE storeRectangle(rectangleRadians.scheme, result,
                        nativeBounds(rectangleRadians.rect))

\* GeographicTilingScheme.prototype.rectangleToNativeRectangle
rectangleToNativeRectangle(s, rectangle, result) ==
    storeRectangle(s, result, nativeBounds(rectangle))

\* GeographicTilingScheme.prototype.positionToTileXY
positionToTileXY(s, position, level, result) ==
    LET t == tileXY(s, position, level) IN
    IF t.status # "returned"
    THEN [status |-> t.status, ret |-> "none", xy |-> NoCartesian2,
          ownXY |-> StaleCartesian2]
    ELSE IF t.new \/ result = "none"
    THEN [status |-> "returned", ret |-> "new", xy |-> t.value,
          ownXY |-> StaleCartesian2]
    ELSE [status |-> "returned", ret |-> "result", xy |-> t.value,
          ownXY |-> t.value]

\* a call is made when the caller is done with the previous one
Idle == last = NoCall

\* the centre of a rectangle: the midpoint of its bounds
centerOf(r) == Cartographic((r.west + r.east) \div 2, (r.south + r.north) \div 2)

\* the rectangles handed to rectangleToNativeRectangle: the scheme's own
\* (from the accessor) and one of the caller's
ArgumentRectangles == {scheme.rectangle, Rectangle_fromDegrees(-20, -10, 20, 10)}

\* positions the caller probes, in degrees
ProbeLongitudes == {-180, -175, -90, 0, 45, 90, 175, 180, 190}
ProbeLatitudes == {-120, -90, 0, 5, 30, 90}
ProbePositions ==
    { Cartographic(toRadians(Degrees(lon)), toRadians(Degrees(lat))) :
        lon \in ProbeLongitudes, lat \in ProbeLatitudes }

GetNumberOfXTilesAtLevel ==
    /\ Idle
    /\ \E level \in (IF aliased THEN 0 .. MaxSmallLevel ELSE 0 .. MaxCountLevel) :
          LET c == getNumberOfXTilesAtLevel(scheme, level) IN
          last' = Call("getNumberOfXTilesAtLevel", level, 0, 0, NoPosition, NoRectangle,
                       FALSE, "none", c.status, "none", c.value, NoRectangle,
                       NoCartesian2, StaleRectangle, StaleCartesian2)
    /\ UNCHANGED <<scheme, constructed, aliased>>

GetNumberOfYTilesAtLevel ==
    /\ Idle
    /\ \E level \in (IF aliased THEN 0 .. MaxSmallLevel ELSE 0 .. MaxCountLevel) :
          LET c == getNumberOfYTilesAtLevel(scheme, level) IN
          last' = Call("getNumberOfYTilesAtLevel", level, 0, 0, NoPosition, NoRectangle,
                       FALSE, "none", c.status, "none", c.value, NoRectangle,
                       NoCartesian2, StaleRectangle, StaleCartesian2)
    /\ UNCHANGED <<scheme, constructed, aliased>>

TileXYToRectangle ==
    /\ Idle
    /\ \E result \in {"none", "own", "root"} :
       \E level \in Levels(result) :
          /\ result \in RectangleResults(level)
          /\ \E x \in Indices(getNumberOfXTilesAtLevel(scheme, level)),
                y \in Indices(getNumberOfYTilesAtLevel(scheme, level)) :
                LET r == tileXYToRectangle(scheme, x, y, level, result) IN
                /\ scheme' = r.scheme
                /\ last' = Call("tileXYToRectangle", level, x, y, NoPosition,
                                NoRectangle, FALSE, result, r.status, r.ret, 0, r.rect,
                                NoCartesian2, r.own, StaleCartesian2)
                /\ aliased' = (aliased \/ result = "root")
    /\ UNCHANGED constructed

TileXYToNativeRectangle ==
    /\ Idle
    /\ \E result \in {"none", "own", "root"} :
       \E level \in 0 .. MaxSmallLevel :
          /\ result \in RectangleResults(level)
          /\ \E x \in Indices(getNumberOfXTilesAtLevel(scheme, level)),
                y \in Indices(getNumberOfYTilesAtLevel(scheme, level)) :
                LET r == tileXYToNativeRectangle(scheme, x, y, level, result) IN
                /\ scheme' = r.scheme
                /\ last' = Call("tileXYToNativeRectangle", level, x, y, NoPosition,
                                NoRectangle, FALSE, result, r.status, r.ret, 0, r.rect,
                                NoCartesian2, r.own, StaleCartesian2)
                /\ aliased' = (aliased \/ result = "root")
    /\ UNCHANGED constructed

RectangleToNativeRectangle ==
    /\ Idle
    /\ \E rectangle \in ArgumentRectangles, result \in RectangleResults(0) :
          LET r == rectangleToNativeRectangle(scheme, rectangle, result) IN
          /\ scheme' = r.scheme
          /\ last' = Call("rectangleToNativeRectangle", 0, 0, 0, NoPosition, rectangle,
                          FALSE, result, r.status, r.ret, 0, r.rect,
                          NoCartesian2, r.own, StaleCartesian2)
          /\ aliased' = (aliased \/ result = "root")
    /\ UNCHANGED constructed

\* positionToTileXY at a probe position
PositionToTileXY ==
    /\ Idle
    /\ \E position \in ProbePositions, level \in 0 .. MaxSmallLevel,
          result \in {"none", "own"} :
          LET r == positionToTileXY(scheme, position, level, result) IN
          last' = Call("positionToTileXY", level, 0, 0, position, NoRectangle,
                       FALSE, result, r.status, r.ret, 0, NoRectangle,
                       r.xy, StaleRectangle, r.ownXY)
    /\ UNCHANGED <<scheme, constructed, aliased>>

\* positionToTileXY at the centre of the rectangle tileXYToRectangle just
\* returned, at the same level
PositionOfCentreToTileXY ==
    /\ last.op = "tileXYToRectangle"
    /\ last.status = "returned"
    /\ \E result \in {"none", "own"} :
          /\ last.level \in Levels(result)
          /\ LET position == centerOf(last.rect)
                 r == positionToTileXY(scheme, position, last.level, result) IN
             last' = [Call("positionToTileXY", last.level, last.x, last.y, position,
                           last.rect, TRUE, result, r.status, r.ret, 0, NoRectangle,
                           r.xy, StaleRectangle, r.ownXY)
                         EXCEPT !.into = last.result]
    /\ UNCHANGED <<scheme, constructed, aliased>>

\* the caller is done with the outputs of the last call
Forget ==
    /\ ~Idle
    /\ last' = NoCall
    /\ UNCHANGED <<scheme, constructed, aliased>>

Init ==
    /\ scheme \in { GeographicTilingScheme(options) : options \in OptionsSet }
    /\ constructed = scheme
    /\ aliased = FALSE
    /\ last = NoCall

Next ==
    \/ GetNumberOfXTilesAtLevel
    \/ GetNumberOfYTilesAtLevel
    \/ TileXYToRectangle
    \/ TileXYToNativeRectangle
    \/ RectangleToNativeRectangle
    \/ PositionToTileXY
    \/ PositionOfCentreToTileXY
    \/ Forget

Spec == Init /\ [][Next]_vars

\* every quotient the code forms on the explored inputs is exact in the
\* model's units
ExactArithmetic ==
    /\ ~defined(scheme.tileInfo) =>
          \A level \in Levels("none") :
             /\ Rectangle_width(scheme.rectangle)
                   % (2 * getNumberOfXTilesAtLevel(scheme, level).value) = 0
             /\ Rectangle_height(scheme.rectangle)
                   % (2 * getNumberOfYTilesAtLevel(scheme, level).value) = 0
    /\ defined(scheme.tileInfo) =>
          /\ scheme.tileInfo[1].origin.x % 2 = 0
          /\ scheme.tileInfo[1].origin.y % 2 = 0
          /\ \A i \in 1 .. Len(scheme.tileInfo[1].lods) :
                /\ (scheme.tileInfo[1].rows * scheme.tileInfo[1].lods[i].resolution) % 4 = 0
                /\ (scheme.tileInfo[1].cols * scheme.tileInfo[1].lods[i].resolution) % 4 = 0

---------------------------------------------------------------------------
(* Properties *)

Standard == ~defined(scheme.tileInfo)
Matrix == defined(scheme.tileInfo)

\* the level has an entry in the level table / has none
LevelKnown(level) ==
    \E i \in 1 .. Len(scheme.tileInfo[1].lods) : scheme.tileInfo[1].lods[i].level = level
ResolutionOf(level) ==
    LET i == CHOOSE j \in 1 .. Len(scheme.tileInfo[1].lods) :
                /\ scheme.tileInfo[1].lods[j].level = level
                /\ \A k \in 1 .. (j - 1) : scheme.tileInfo[1].lods[k].level # level
    IN  scheme.tileInfo[1].lods[i].resolution

\* n is a / b rounded to the nearest integer, halves away from zero (a, b > 0)
IsRounded(n, a, b) == 2 * n * b - b <= 2 * a /\ 2 * a < 2 * n * b + b

XTiles(level) == getNumberOfXTilesAtLevel(scheme, level).value
YTiles(level) == getNumberOfYTilesAtLevel(scheme, level).value

\* the last call converted a tile to a rectangle in radians, into a rectangle
\* that is not the scheme's own
TileConverted ==
    /\ last.op = "tileXYToRectangle"
    /\ last.status = "returned"
    /\ last.result # "root"

\* the last call looked up the centre of the tile (last.x, last.y), which was
\* converted into a rectangle that is not the scheme's own
CentreLookedUp == last.op = "positionToTileXY" /\ last.centre /\ last.into # "root"

\* C1: in standard mode, for every level 0..6 and every valid tile (x, y),
\* positionToTileXY at the centre of tileXYToRectangle(x, y, level) returns (x, y)
C1_RoundTripStandard ==
    (Standard /\ CentreLookedUp /\ last.level <= 6) =>
        /\ last.status = "returned"
        /\ last.xy = Cartesian2(last.x, last.y)

\* (auxiliary) the round trip of C1 for root rectangles that do not wrap the
\* date line
RoundTripStandardNoWrap ==
    (Standard /\ CentreLookedUp /\ scheme.rectangle.east >= scheme.rectangle.west) =>
        /\ last.status = "returned"
        /\ last.xy = Cartesian2(last.x, last.y)

\* adjacent tiles share their boundary
AdjacentShare ==
    /\ last.x + 1 < XTiles(last.level) =>
          last.rect.east = tileBounds(scheme, last.x + 1, last.y, last.level).value.west
    /\ last.y + 1 < YTiles(last.level) =>
          last.rect.south = tileBounds(scheme, last.x, last.y + 1, last.level).value.north

\* C2 (as claimed): in either mode the tiles of a level partition the root
\* rectangle: adjacent tiles share their boundary and the outer bounds of the
\* first and last column and row are the root rectangle's
C2_PartitionOfRoot ==
    TileConverted =>
        /\ AdjacentShare
        /\ last.x = 0 => last.rect.west = scheme.rectangle.west
        /\ last.y = 0 => last.rect.north = scheme.rectangle.north
        /\ last.x = XTiles(last.level) - 1 => last.rect.east = scheme.rectangle.east
        /\ last.y = YTiles(last.level) - 1 => last.rect.south = scheme.rectangle.south

\* C2 (amended): in either mode adjacent tiles share their boundary exactly.
\* In standard mode the grid starts at the root's west and north, its last
\* row ends at the root's south and its last column at west + width (the
\* root's east, plus a full turn when the root wraps the date line).  In
\* matrix mode the grid starts at the origin and ends one tile count of cells
\* away from it, wherever the root rectangle is.
C2_PartitionOfGrid ==
    TileConverted =>
        /\ AdjacentShare
        /\ Standard =>
              /\ last.x = 0 => last.rect.west = scheme.rectangle.west
              /\ last.y = 0 => last.rect.north = scheme.rectangle.north
              /\ last.x = XTiles(last.level) - 1 =>
                    last.rect.east = scheme.rectangle.west + Rectangle_width(scheme.rectangle)
              /\ last.x = XTiles(last.level) - 1 =>
                    last.rect.east = scheme.rectangle.east
                        + (IF scheme.rectangle.east < scheme.rectangle.west
                           THEN TWO_PI ELSE 0)
              /\ last.y = YTiles(last.level) - 1 =>
                    last.rect.south = scheme.rectangle.south
        /\ Matrix =>
              LET ti == scheme.tileInfo[1]
                  r == ResolutionOf(last.level) IN
              /\ last.x = 0 => last.rect.west = toRadians(ti.origin.x)
              /\ last.y = 0 => last.rect.north = toRadians(ti.origin.y)
              /\ last.x = XTiles(last.level) - 1 =>
                    toDegrees(last.rect.east)
                        = ti.origin.x + XTiles(last.level) * ti.rows * r
              /\ last.y = YTiles(last.level) - 1 =>
                    toDegrees(last.rect.south)
                        = ti.origin.y - YTiles(last.level) * ti.cols * r

\* a last-column tile of a matrix whose grid ends short of the root's east,
\* with a row below it
C2_Witness ==
    /\ TileConverted
    /\ Matrix
    /\ last.x = XTiles(last.level) - 1
    /\ last.x > 0
    /\ last.y + 1 < YTiles(last.level)
    /\ last.rect.east # scheme.rectangle.east

\* C3: positionToTileXY at a position outside the root rectangle returns
\* undefined, in either mode and at every level (also one the level table has
\* no entry for): it does not throw, returns no tile and leaves the caller's
\* output pair as it was
C3_OutOfBoundsNoTile ==
    (last.op = "positionToTileXY" /\ ~Rectangle_contains(scheme.rectangle, last.position)) =>
        /\ last.status = "undefined"
        /\ last.ret = "none"
        /\ last.ownXY = StaleCartesian2

\* an outside position, a level missing from the table, an output pair passed
C3_Witness ==
    /\ last.op = "positionToTileXY"
    /\ ~Rectangle_contains(scheme.rectangle, last.position)
    /\ Matrix
    /\ ~LevelKnown(last.level)
    /\ last.result = "own"
    /\ last.status = "undefined"

\* C4 (as claimed): in matrix mode the X count is round(180 / (cols * r)) and
\* the Y count is round(90 / (rows * r))
C4_CountsAsClaimed ==
    (Matrix /\ last.status = "returned") =>
        /\ last.op = "getNumberOfXTilesAtLevel" =>
              IsRounded(last.n, Degrees(180),
                        scheme.tileInfo[1].cols * ResolutionOf(last.level))
        /\ last.op = "getNumberOfYTilesAtLevel" =>
              IsRounded(last.n, Degrees(90),
                        scheme.tileInfo[1].rows * ResolutionOf(last.level))

\* C4 (amended): in matrix mode, for a level with an entry of resolution r,
\* the X count is round(360 / (rows * r)) and the Y count is
\* round(180 / (cols * r)), halves rounded away from zero
C4_MatrixCounts ==
    (Matrix /\ last.status = "returned") =>
        /\ last.op = "getNumberOfXTilesAtLevel" =>
              IsRounded(last.n, Degrees(360),
                        scheme.tileInfo[1].rows * ResolutionOf(last.level))
        /\ last.op = "getNumberOfYTilesAtLevel" =>
              IsRounded(last.n, Degrees(180),
                        scheme.tileInfo[1].cols * ResolutionOf(last.level))

\* a Y count that is rounded up from a half (180 / 72), with rows # cols
C4_Witness ==
    /\ Matrix
    /\ last.op = "getNumberOfYTilesAtLevel"
    /\ last.status = "returned"
    /\ scheme.tileInfo[1].rows # scheme.tileInfo[1].cols
    /\ 2 * Degrees(180)
          = (2 * last.n - 1) * scheme.tileInfo[1].cols * ResolutionOf(last.level)

\* the longitude lies in the span of column x at the level, up to full turns
SpanContains(x, level, longitude) ==
    LET b == tileBounds(scheme, x, 0, level).value IN
    \E turns \in {-1, 0, 1} :
        /\ b.west <= longitude + turns * TWO_PI
        /\ longitude + turns * TWO_PI <= b.east

\* C5: with the root rectangle west = 170, east = -170 degrees (standard
\* mode), at every level the tile of longitude -175 is the tile of longitude
\* 175 or the next one, and each position is in the span of its tile
C5_AntimeridianWraparound ==
    (/\ Standard
     /\ scheme.rectangle.west = toRadians(Degrees(170))
     /\ scheme.rectangle.east = toRadians(Degrees(-170))
     /\ last.op = "positionToTileXY"
     /\ last.status = "returned"
     /\ last.position.longitude = toRadians(Degrees(-175))) =>
        LET east == tileXY(scheme, Cartographic(toRadians(Degrees(175)),
                                                last.position.latitude),
                           last.level).value IN
        /\ last.xy.x >= east.x
        /\ last.xy.x <= east.x + 1
        /\ SpanContains(last.xy.x, last.level, toRadians(Degrees(-175)))
        /\ SpanContains(east.x, last.level, toRadians(Degrees(175)))

\* C6: no call changes the scheme's configuration: its fields are in every
\* reachable state what the constructor left
C6_ConfigurationImmutable == scheme = constructed

\* C7: positionToTileXY, in either mode, at a position within the root
\* rectangle: a supplied output pair receives the tile and is the object
\* returned; a new pair is returned only when none is supplied
C7_OutputPairConvention ==
    (/\ last.op = "positionToTileXY"
     /\ Rectangle_contains(scheme.rectangle, last.position)
     /\ last.status = "returned") =>
        /\ last.result = "own" => (last.ret = "result" /\ last.ownXY = last.xy)
        /\ last.result = "none" => last.ret = "new"

\* the default root tile counts of standard mode
DefaultCounts ==
    /\ Standard
    /\ scheme.numberOfLevelZeroTilesX = 2
    /\ scheme.numberOfLevelZeroTilesY = 1

\* C8 (as claimed): standard mode, root counts 2 x 1: for every level with
\* level + 1 <= 30 the counts at level + 1 are positive and twice the counts at
\* the level
C8_DoublingTo30 ==
    (DefaultCounts /\ last.status = "returned" /\ last.level + 1 <= 30) =>
        /\ last.op = "getNumberOfXTilesAtLevel" =>
              /\ last.n > 0
              /\ XTiles(last.level + 1) > 0
              /\ XTiles(last.level + 1) = 2 * last.n
        /\ last.op = "getNumberOfYTilesAtLevel" =>
              /\ last.n > 0
              /\ YTiles(last.level + 1) > 0
              /\ YTiles(last.level + 1) = 2 * last.n

\* C8 (amended): standard mode, root counts 2 x 1: the X count at level + 1 is
\* positive and twice the X count at the level for level + 1 <= 29, the Y count
\* for level + 1 <= 30
C8_Doubling ==
    (DefaultCounts /\ last.status = "returned") =>
        /\ (last.op = "getNumberOfXTilesAtLevel" /\ last.level + 1 <= 29) =>
              /\ last.n > 0
              /\ XTiles(last.level + 1) > 0
              /\ XTiles(last.level + 1) = 2 * last.n
        /\ (last.op = "getNumberOfYTilesAtLevel" /\ last.level + 1 <= 30) =>
              /\ last.n > 0
              /\ YTiles(last.level + 1) > 0
              /\ YTiles(last.level + 1) = 2 * last.n

\* the X count asked for at the last level the doubling reaches
C8_Witness ==
    /\ DefaultCounts
    /\ last.op = "getNumberOfXTilesAtLevel"
    /\ last.status = "returned"
    /\ last.level = 28
    /\ last.n = Two30 \div 2

\* C9: in matrix mode, at a level the level table has no entry for, the tile
\* counts, both tile conversions and the lookup of a position within the root
\* rectangle throw; nothing is returned and the output object passed in, the
\* caller's own or the scheme's rectangle, is left as it was
C9_UnknownLevelThrows ==
    (/\ Matrix
     /\ ~LevelKnown(last.level)
     /\ \/ last.op \in {"getNumberOfXTilesAtLevel", "getNumberOfYTilesAtLevel",
                        "tileXYToRectangle", "tileXYToNativeRectangle"}
        \/ /\ last.op = "positionToTileXY"
           /\ Rectangle_contains(scheme.rectangle, last.position)) =>
        /\ last.status = "threw"
        /\ last.ret = "none"
        /\ last.own = StaleRectangle
        /\ last.ownXY = StaleCartesian2
        /\ last.result = "root" => scheme = constructed

\* a conversion to a native rectangle at a missing level, into the scheme's
\* own rectangle
C9_Witness ==
    /\ Matrix
    /\ ~LevelKnown(last.level)
    /\ last.op = "tileXYToNativeRectangle"
    /\ last.result = "root"
    /\ last.status = "threw"

\* C10: in matrix mode, for a level with an entry, any rows and cols and
\* every tile (x, y) within the level's tile counts whose centre lies within
\* the root rectangle, positionToTileXY at the centre of
\* tileXYToRectangle(x, y, level) returns (x, y), an index within the counts
C10_RoundTripMatrix ==
    (/\ Matrix
     /\ last.op = "positionToTileXY"
     /\ last.centre
     /\ 0 <= last.x /\ last.x < XTiles(last.level)
     /\ 0 <= last.y /\ last.y < YTiles(last.level)
     /\ Rectangle_contains(scheme.rectangle, centerOf(last.rectangle))) =>
        /\ last.status = "returned"
        /\ last.position = centerOf(last.rectangle)
        /\ last.xy = Cartesian2(last.x, last.y)
        /\ last.xy.x < XTiles(last.level)
        /\ last.xy.y < YTiles(last.level)

\* the centre of a tile off both axes, of a matrix with rows # cols, found
C10_Witness ==
    /\ Matrix
    /\ scheme.tileInfo[1].rows # scheme.tileInfo[1].cols
    /\ last.op = "positionToTileXY"
    /\ last.centre
    /\ last.status = "returned"
    /\ last.x > 0
    /\ last.y > 0
    /\ last.xy = Cartesian2(last.x, last.y)

====
